---- MODULE Spec2Model ----
(***************************************************************************)
(* Model of the query orchestration of spike-ai: the Orchestrator          *)
(* (src/server/orchestrator.ts), the AnalyticsAgent                        *)
(* (src/server/agents/analytics-agent.ts), the SEOAgent                    *)
(* (src/server/orchestrator.ts, second half) and the LiteLLM gateway       *)
(* client (src/unnamed/part_000).                                          *)
(*                                                                         *)
(* Texts are sequences of tokens (single characters where the code looks   *)
(* inside the string, whole phrases elsewhere); '' is the empty sequence.  *)
(* An optional field is None (absent) or Some(v).                          *)
(***************************************************************************)
EXTENDS Integers, Sequences, FiniteSets, TLC

None == <<>>
Some(v) == <<v>>
IsSome(o) == o # <<>>
Get(o) == o[1]

(* the value of a one-element set: binds an intermediate result once *)
Only(S) == CHOOSE x \in S : TRUE

(* JavaScript truthiness of an optional string: undefined and '' are falsy *)
Truthy(o) == IsSome(o) /\ Get(o) # <<>>

----------------------------------------------------------------------------
(* String primitives used by the code *)

UpperChars == <<"A","B","C","D","E","F","G","H","I","J","K","L","M",
                "N","O","P","Q","R","S","T","U","V","W","X","Y","Z">>
LowerChars == <<"a","b","c","d","e","f","g","h","i","j","k","l","m",
                "n","o","p","q","r","s","t","u","v","w","x","y","z">>

LowerChar(c) ==
  IF \E i \in 1..Len(UpperChars) : UpperChars[i] = c
  THEN LowerChars[CHOOSE i \in 1..Len(UpperChars) : UpperChars[i] = c]
  ELSE c

toLowerCase(s) == [i \in 1..Len(s) |-> LowerChar(s[i])]

IsWhitespace(c) == c \in {" ", "\n", "\t", "\r"}

RECURSIVE TrimStart(_)
TrimStart(s) ==
  IF s # <<>> /\ IsWhitespace(Head(s)) THEN TrimStart(Tail(s)) ELSE s

RECURSIVE TrimEnd(_)
TrimEnd(s) ==
  IF s # <<>> /\ IsWhitespace(s[Len(s)])
  THEN TrimEnd(SubSeq(s, 1, Len(s) - 1)) ELSE s

trim(s) == TrimEnd(TrimStart(s))

includes(s, sub) ==
  \E i \in 0..(Len(s) - Len(sub)) : SubSeq(s, i + 1, i + Len(sub)) = sub

----------------------------------------------------------------------------
(* LiteLLM gateway client *)

MAX_RETRIES == 3
INITIAL_BACKOFF == 1000

RECURSIVE Pow2(_)
Pow2(n) == IF n = 0 THEN 1 ELSE 2 * Pow2(n - 1)

(* The outcomes of one HTTP request of chat:                               *)
(*   ok(content)   an OK response whose first choice carries content       *)
(*                 (None when choices[0]?.message?.content is missing)     *)
(*   rate          HTTP 429                                                *)
(*   notok         another non-OK status                                   *)
(*   exc           fetch or response.json() threw                          *)
HttpOk(content) == [kind |-> "ok", content |-> content]
HttpRate == [kind |-> "rate"]
HttpNotOk == [kind |-> "notok", status |-> "500", text |-> "upstream down"]
HttpExc == [kind |-> "exc", message |-> "fetch failed"]

(* What the servers answer to the requests of one chat call *)
(* (the responses the client receives: failures, then possibly a success)  *)
HttpFailures == {HttpRate, HttpNotOk, HttpExc}
FailureRuns(n) == UNION {[1..k -> HttpFailures] : k \in 0..n}
HttpScripts(contents) ==
  {fs \o <<HttpOk(c)>> : fs \in FailureRuns(MAX_RETRIES - 1), c \in contents}
  \cup [1..MAX_RETRIES -> HttpFailures]

(* the scripts the query flow is run against: an immediate answer, an      *)
(* answer after a retry, rate limiting throughout, failures throughout     *)
GatewayScripts(contents) ==
  {<<HttpOk(c)>> : c \in contents}
  \cup {<<HttpRate, HttpOk(c)>> : c \in contents}
  \cup {<<HttpRate, HttpRate, HttpRate>>, <<HttpExc, HttpNotOk, HttpExc>>}

backoffTime_Constant(attempt) == INITIAL_BACKOFF

backoffTime_Linear(attempt) == INITIAL_BACKOFF * (attempt + 1)

(* lines 68 and 87: INITIAL_BACKOFF * Math.pow(2, attempt) *)
backoffTime(attempt) == INITIAL_BACKOFF * Pow2(attempt)

ErrorMessageOf(lastError) ==
  IF IsSome(lastError) THEN Get(lastError) ELSE <<"undefined">>

ExhaustionError(lastError) ==
  <<"LiteLLM failed after ", "3", " attempts: ">> \o ErrorMessageOf(lastError)

(* chat: the retry loop, from attempt `attempt` on. Returns                *)
(* [ok, text | error, requests, delays].                                   *)
RECURSIVE chatLoop(_, _, _, _)
chatLoop(script, attempt, lastError, delays) ==
  IF attempt >= MAX_RETRIES
  THEN [ok |-> FALSE, error |-> ExhaustionError(lastError),
        requests |-> attempt, delays |-> delays]
  ELSE
    LET r == script[attempt + 1]
    IN CASE r.kind = "rate" ->
              chatLoop(script, attempt + 1, lastError,
                       Append(delays, backoffTime(attempt)))
         [] r.kind = "ok" ->
              [ok |-> TRUE,
               text |-> IF IsSome(r.content) THEN Get(r.content) ELSE <<>>,
               requests |-> attempt + 1, delays |-> delays]
         [] OTHER ->
              LET msg == IF r.kind = "notok"
                         THEN <<"LiteLLM API error (", r.status, "): ", r.text>>
                         ELSE <<r.message>>
              IN chatLoop(script, attempt + 1, Some(msg),
                          IF attempt < MAX_RETRIES - 1
                          THEN Append(delays, backoffTime(attempt)) ELSE delays)

chat(script) == chatLoop(script, 0, None, <<>>)

----------------------------------------------------------------------------
(* Labels *)

Analytics == <<"a","n","a","l","y","t","i","c","s">>
Seo == <<"s","e","o">>
Both == <<"b","o","t","h">>
Unknown == <<"u","n","k","n","o","w","n">>
AgentTypes == {Analytics, Seo, Both}

detectIntent_NoFallback(reply, query, propertyId) ==
  toLowerCase(trim(reply))

detectIntent_KeywordsFirst(reply, query, propertyId) ==
  LET hasPropertyId == Truthy(propertyId)
      intent == toLowerCase(trim(reply))
  IN IF intent \notin AgentTypes
     THEN IF \/ includes(toLowerCase(query), <<"s","e","o">>)
             \/ includes(toLowerCase(query), <<"t","i","t","l","e">>)
             \/ includes(toLowerCase(query), <<"m","e","t","a">>)
          THEN Seo
          ELSE Analytics
     ELSE intent

(* Orchestrator.detectIntent, after the gateway has replied with `reply` *)
detectIntent(reply, query, propertyId) ==
  LET hasPropertyId == Truthy(propertyId)
      intent == toLowerCase(trim(reply))
  IN IF intent \notin AgentTypes
     THEN IF hasPropertyId THEN Analytics
          ELSE IF \/ includes(toLowerCase(query), <<"s","e","o">>)
                  \/ includes(toLowerCase(query), <<"t","i","t","l","e">>)
                  \/ includes(toLowerCase(query), <<"m","e","t","a">>)
               THEN Seo
               ELSE Analytics
     ELSE intent

----------------------------------------------------------------------------
(* Plan inference: response.match(/\{[\s\S]*\}/) and JSON.parse *)

BraceOpen(text) == {i \in 1..Len(text) : text[i] = "{"}
BraceClose(text, from) == {j \in (from + 1)..Len(text) : text[j] = "}"}
Min(S) == CHOOSE x \in S : \A y \in S : x <= y
Max(S) == CHOOSE x \in S : \A y \in S : x >= y

(* the greedy match: from the first "{" that has a "}" after it to the     *)
(* last "}" of the text; None when there is no such pair                   *)
jsonMatch(text) ==
  LET starts == {i \in BraceOpen(text) : BraceClose(text, i) # {}}
  IN IF starts = {} THEN None
     ELSE LET i == Min(starts)
              j == Max(BraceClose(text, i))
          IN Some(SubSeq(text, i, j))

(* JSON.parse of a matched substring: the documents the model knows decode *)
(* to their object, anything else is a SyntaxError                         *)
JSONparse(doc, table) ==
  IF Len(doc) = 3 /\ doc[2] \in DOMAIN table
  THEN [ok |-> TRUE, value |-> table[doc[2]]]
  ELSE [ok |-> FALSE, error |-> <<"Unexpected token in JSON">>]

----------------------------------------------------------------------------
(* Analytics agent: allowlists, plans and the pure steps *)

VALID_METRICS ==
  <<"activeUsers", "sessions", "screenPageViews", "eventCount", "conversions",
    "totalRevenue", "averageSessionDuration", "bounceRate", "engagementRate",
    "newUsers", "userEngagementDuration", "sessionConversionRate">>

VALID_DIMENSIONS ==
  <<"date", "pagePath", "pageTitle", "country", "city", "deviceCategory",
    "browser", "operatingSystem", "sessionSource", "sessionMedium",
    "sessionCampaignName", "landingPage", "eventName">>

Range(f) == {f[i] : i \in DOMAIN f}

GA4Plan(metrics, dimensions, orderBy, limit) ==
  [metrics |-> metrics, dimensions |-> dimensions,
   dateRanges |-> Some("last7days"), orderBy |-> orderBy, limit |-> limit]

(* The JSON documents the gateway may produce for a reporting plan, by the *)
(* text between the braces                                                 *)
AnalyticsPlanTable ==
  [b \in {"valid", "badMetric", "badDimension", "noMetrics", "orderByOther"} |->
    CASE b = "valid" ->
           GA4Plan(Some(<<"screenPageViews", "sessions">>), Some(<<"pagePath">>),
                   Some(<<"screenPageViews">>), Some(5))
      [] b = "badMetric" ->
           GA4Plan(Some(<<"sessions", "pageViews">>), Some(<<"date">>), None, None)
      [] b = "badDimension" ->
           GA4Plan(Some(<<"sessions">>), Some(<<"date", "url">>), None, Some(10))
      [] b = "noMetrics" ->
           GA4Plan(None, Some(<<"date">>), None, None)
      [] b = "orderByOther" ->
           GA4Plan(Some(<<"sessions">>), Some(<<"country">>),
                   Some(<<"adClicks">>), Some(3))]

AnalyticsPlanReplies ==
  {Some(<<"{", b, "}">>) : b \in DOMAIN AnalyticsPlanTable}
  \cup {Some(<<"Here is the plan: ", "{", "valid", "}", " Hope it helps.">>),
        Some(<<"I cannot build a plan for that.">>),
        Some(<<"{", "\"metrics\": [\"sessions\"", "}">>),
        Some(<<"{", "valid", "}", " or ", "{", "noMetrics", "}">>),
        None}

OrEmpty(o) == IF IsSome(o) THEN Get(o) ELSE <<>>

validateFields_MetricsOnly(plan) ==
  LET ms == OrEmpty(plan.metrics)
      badM == {i \in 1..Len(ms) : ms[i] \notin Range(VALID_METRICS)}
  IN IF badM # {}
     THEN Some(<<"Invalid metric: ", ms[Min(badM)], ". Must be one of: ">>
               \o VALID_METRICS)
     ELSE None

(* AnalyticsAgent.validateFields: None when it returns, Some(message) when *)
(* it throws; metrics are checked before dimensions, each in list order    *)
validateFields(plan) ==
  LET ms == OrEmpty(plan.metrics)
      ds == OrEmpty(plan.dimensions)
      badM == {i \in 1..Len(ms) : ms[i] \notin Range(VALID_METRICS)}
      badD == {i \in 1..Len(ds) : ds[i] \notin Range(VALID_DIMENSIONS)}
  IN IF badM # {}
     THEN Some(<<"Invalid metric: ", ms[Min(badM)], ". Must be one of: ">>
               \o VALID_METRICS)
     ELSE IF badD # {}
     THEN Some(<<"Invalid dimension: ", ds[Min(badD)], ". Must be one of: ">>
               \o VALID_DIMENSIONS)
     ELSE None

(* the request AnalyticsAgent.executeGA4Query hands to runReport *)
GA4Request(propertyId, plan) ==
  [property |-> <<"properties/">> \o
                (IF IsSome(propertyId) THEN Get(propertyId) ELSE <<"undefined">>),
   dateRanges |-> plan.dateRanges,
   dimensions |-> OrEmpty(plan.dimensions),
   metrics |-> OrEmpty(plan.metrics),
   limit |-> IF IsSome(plan.limit) /\ Get(plan.limit) # 0
             THEN Get(plan.limit) ELSE 10,
   orderBys |-> OrEmpty(plan.orderBy)]

GA4Data == "ga4 rows"

ExplanationReplies == {Some(<<"Page views rose over the last week.">>), None}

----------------------------------------------------------------------------
(* SEO agent: JavaScript values of the spreadsheet rows and of the plan *)

Str(chars) == [t |-> "str", v |-> chars]
Num(n) == [t |-> "num", v |-> n]
Undef == [t |-> "undef"]
NaN == [t |-> "nan"]

Digits == <<"0","1","2","3","4","5","6","7","8","9">>
IsDigit(c) == \E i \in 1..10 : Digits[i] = c
DigitVal(c) == (CHOOSE i \in 1..10 : Digits[i] = c) - 1

(* code-unit order of the characters the model uses *)
CharOrder ==
  <<" ", "-", "/", "0","1","2","3","4","5","6","7","8","9", "?">>
  \o UpperChars \o LowerChars
Code(c) == CHOOSE i \in 1..Len(CharOrder) : CharOrder[i] = c

RECURSIVE DigitsValue(_, _)
DigitsValue(s, acc) ==
  IF s = <<>> THEN acc ELSE DigitsValue(Tail(s), 10 * acc + DigitVal(Head(s)))

RECURSIVE DigitPrefix(_)
DigitPrefix(s) ==
  IF s # <<>> /\ IsDigit(Head(s)) THEN <<Head(s)>> \o DigitPrefix(Tail(s))
  ELSE <<>>

RECURSIVE NatChars(_)
NatChars(n) ==
  IF n < 10 THEN <<Digits[n + 1]>>
  ELSE NatChars(n \div 10) \o <<Digits[(n % 10) + 1]>>

(* String(value) *)
ToStr(x) ==
  CASE x.t = "str" -> x.v
    [] x.t = "num" -> IF x.v < 0 THEN <<"-">> \o NatChars(-x.v) ELSE NatChars(x.v)
    [] x.t = "nan" -> <<"N","a","N">>
    [] OTHER -> <<"u","n","d","e","f","i","n","e","d">>

(* parseFloat(value): the longest numeric prefix after leading blanks *)
parseFloat(x) ==
  LET s == TrimStart(ToStr(x))
      neg == s # <<>> /\ Head(s) = "-"
      body == IF neg THEN Tail(s) ELSE s
      ds == DigitPrefix(body)
  IN IF ds = <<>> THEN NaN
     ELSE Num(IF neg THEN -DigitsValue(ds, 0) ELSE DigitsValue(ds, 0))

(* ToNumber(value): the whole trimmed string must be numeric, '' is 0 *)
ToNumber(x) ==
  CASE x.t = "num" -> x
    [] x.t = "str" ->
         LET s == trim(x.v)
             neg == s # <<>> /\ Head(s) = "-"
             body == IF neg THEN Tail(s) ELSE s
         IN IF s = <<>> THEN Num(0)
            ELSE IF body # <<>> /\ DigitPrefix(body) = body
            THEN Num(IF neg THEN -DigitsValue(body, 0) ELSE DigitsValue(body, 0))
            ELSE NaN
    [] OTHER -> NaN

(* a == b *)
LooseEq(a, b) ==
  CASE a.t = "undef" \/ b.t = "undef" -> a.t = b.t
    [] a.t = "str" /\ b.t = "str" -> a.v = b.v
    [] OTHER -> LET x == ToNumber(a)
                    y == ToNumber(b)
                IN x.t = "num" /\ y.t = "num" /\ x.v = y.v

RECURSIVE LexLess(_, _)
LexLess(a, b) ==
  IF b = <<>> THEN FALSE
  ELSE IF a = <<>> THEN TRUE
  ELSE IF Head(a) = Head(b) THEN LexLess(Tail(a), Tail(b))
  ELSE Code(Head(a)) < Code(Head(b))

(* a < b: code-unit order when both are strings, numeric otherwise *)
JsLess(a, b) ==
  IF a.t = "str" /\ b.t = "str" THEN LexLess(a.v, b.v)
  ELSE LET x == ToNumber(a)
           y == ToNumber(b)
       IN x.t = "num" /\ y.t = "num" /\ x.v < y.v

NumLess(a, b) == a.t = "num" /\ b.t = "num" /\ a.v < b.v

(* row[column]: undefined when the row has no such column *)
Field(row, column) == IF column \in DOMAIN row THEN row[column] ELSE Undef

FilterMatches_UnknownRejects(row, filter) ==
  LET value == Field(row, filter.column)
  IN CASE filter.operator = "==" -> LooseEq(value, filter.value)
       [] filter.operator = "!=" -> ~LooseEq(value, filter.value)
       [] filter.operator = ">" ->
            NumLess(parseFloat(filter.value), parseFloat(value))
       [] filter.operator = "<" ->
            NumLess(parseFloat(value), parseFloat(filter.value))
       [] filter.operator = "contains" ->
            includes(toLowerCase(ToStr(value)), toLowerCase(ToStr(filter.value)))
       [] OTHER -> FALSE

(* the body of the filter callback *)
FilterMatches(row, filter) ==
  LET value == Field(row, filter.column)
  IN CASE filter.operator = "==" -> LooseEq(value, filter.value)
       [] filter.operator = "!=" -> ~LooseEq(value, filter.value)
       [] filter.operator = ">" ->
            NumLess(parseFloat(filter.value), parseFloat(value))
       [] filter.operator = "<" ->
            NumLess(parseFloat(value), parseFloat(filter.value))
       [] filter.operator = "contains" ->
            includes(toLowerCase(ToStr(value)), toLowerCase(ToStr(filter.value)))
       [] OTHER -> TRUE

SelectRows_SkipHead(rows, filter) ==
  IF rows = <<>> THEN <<>>
  ELSE SelectSeq(Tail(rows), LAMBDA row : FilterMatches(row, filter))

(* result.filter(row => ...) for one clause *)
RECURSIVE SelectRows(_, _)
SelectRows(rows, filter) ==
  IF rows = <<>> THEN <<>>
  ELSE IF FilterMatches(Head(rows), filter)
       THEN <<Head(rows)>> \o SelectRows(Tail(rows), filter)
       ELSE SelectRows(Tail(rows), filter)

(* the filter loop: [ok, rows]; a null clause makes the callback throw on  *)
(* the first row it is called with (it is not called on an empty list)     *)
RECURSIVE ApplyFilters(_, _)
ApplyFilters(rows, filters) ==
  IF filters = <<>> THEN [ok |-> TRUE, rows |-> rows]
  ELSE IF ~IsSome(Head(filters))
       THEN IF rows = <<>> THEN ApplyFilters(rows, Tail(filters))
            ELSE [ok |-> FALSE,
                  error |-> <<"Cannot read properties of null (reading 'column')">>]
       ELSE ApplyFilters(SelectRows(rows, Get(Head(filters))), Tail(filters))

(* keys of the groups object in insertion order *)
RECURSIVE GroupKeys(_, _, _)
GroupKeys(rows, column, seen) ==
  IF rows = <<>> THEN seen
  ELSE LET key == ToStr(Field(Head(rows), column))
       IN GroupKeys(Tail(rows), column,
                    IF key \in Range(seen) THEN seen ELSE Append(seen, key))

(* an integer-like property key ("0", "7", "70"; not "07") *)
IsArrayIndex(key) ==
  /\ key # <<>>
  /\ DigitPrefix(key) = key
  /\ (Len(key) > 1 => Head(key) # "0")

RECURSIVE SelectSeq2(_, _, _)
SelectSeq2(seq, column, key) ==
  IF seq = <<>> THEN <<>>
  ELSE IF ToStr(Field(Head(seq), column)) = key
       THEN <<Head(seq)>> \o SelectSeq2(Tail(seq), column, key)
       ELSE SelectSeq2(Tail(seq), column, key)

RECURSIVE InsertIndexKey(_, _)
InsertIndexKey(sorted, key) ==
  IF sorted = <<>> THEN <<key>>
  ELSE IF DigitsValue(key, 0) < DigitsValue(Head(sorted), 0)
       THEN <<key>> \o sorted
       ELSE <<Head(sorted)>> \o InsertIndexKey(Tail(sorted), key)

RECURSIVE EntriesOrder(_, _, _)
EntriesOrder(keys, indexKeys, otherKeys) ==
  IF keys = <<>> THEN indexKeys \o otherKeys
  ELSE IF IsArrayIndex(Head(keys))
       THEN EntriesOrder(Tail(keys), InsertIndexKey(indexKeys, Head(keys)), otherKeys)
       ELSE EntriesOrder(Tail(keys), indexKeys, Append(otherKeys, Head(keys)))

(* Object.entries(groups).map(...): integer-like keys first, ascending,   *)
(* then the other keys in insertion order                                  *)
GroupRows(rows, column) ==
  Only({ [i \in 1..Len(keys) |->
            Only({ ("items" :> [t |-> "arr", v |-> items])
                   @@ ("count" :> Num(Len(items)))
                   @@ (column :> Str(keys[i]))
                   : items \in {SelectSeq2(rows, column, keys[i])} })]
         : keys \in {EntriesOrder(GroupKeys(rows, column, <<>>), <<>>, <<>>)} })

(* the sort callback *)
Comparison(a, b, sortBy) ==
  LET aVal == Field(a, sortBy.column)
      bVal == Field(b, sortBy.column)
      comparison == IF JsLess(bVal, aVal) THEN 1
                    ELSE IF JsLess(aVal, bVal) THEN -1 ELSE 0
  IN IF sortBy.desc THEN -comparison ELSE comparison

(* Array.prototype.sort is stable: an element goes after every element    *)
(* that does not compare greater than it                                   *)
RECURSIVE InsertSorted(_, _, _)
InsertSorted(sorted, x, sortBy) ==
  IF sorted = <<>> THEN <<x>>
  ELSE IF Comparison(sorted[Len(sorted)], x, sortBy) > 0
       THEN Append(InsertSorted(SubSeq(sorted, 1, Len(sorted) - 1), x, sortBy),
                   sorted[Len(sorted)])
       ELSE Append(sorted, x)

RECURSIVE SortRows(_, _, _)
SortRows(rows, sorted, sortBy) ==
  IF rows = <<>> THEN sorted
  ELSE Only({ SortRows(Tail(rows), next, sortBy)
              : next \in {InsertSorted(sorted, Head(rows), sortBy)} })

(* result.slice(0, limit) *)
Slice0(rows, limit) ==
  LET end == IF limit < 0 THEN (IF Len(rows) + limit < 0 THEN 0 ELSE Len(rows) + limit)
             ELSE IF limit > Len(rows) THEN Len(rows) ELSE limit
  IN SubSeq(rows, 1, end)

SeoPlan(filters, groupBy, sortBy, limit) ==
  [filters |-> filters, groupBy |-> groupBy, sortBy |-> sortBy, limit |-> limit]

(* lines 388-409: the filter stage, [ok, rows | error] *)
FilterStage(data, plan) ==
  IF IsSome(plan.filters) /\ Len(Get(plan.filters)) > 0
  THEN ApplyFilters(data, Get(plan.filters))
  ELSE [ok |-> TRUE, rows |-> data]

(* property names every object inherits from Object.prototype: for such a *)
(* key groups[key] is a function, not undefined                            *)
PrototypeKeys ==
  {<<"c","o","n","s","t","r","u","c","t","o","r">>,
   <<"t","o","S","t","r","i","n","g">>,
   <<"v","a","l","u","e","O","f">>}

(* lines 414-420: groups[key].push throws for an inherited key *)
GroupThrows(rows, column) ==
  \E i \in 1..Len(rows) : ToStr(Field(rows[i], column)) \in PrototypeKeys

(* lines 411-426: [ok, rows | error] *)
GroupStage(rows, plan) ==
  IF ~IsSome(plan.groupBy) THEN [ok |-> TRUE, rows |-> rows]
  ELSE IF GroupThrows(rows, Get(plan.groupBy))
  THEN [ok |-> FALSE, error |-> <<"groups[key].push is not a function">>]
  ELSE [ok |-> TRUE, rows |-> GroupRows(rows, Get(plan.groupBy))]

(* lines 428-436 *)
SortStage(rows, plan) ==
  IF IsSome(plan.sortBy) THEN SortRows(rows, <<>>, Get(plan.sortBy)) ELSE rows

(* lines 438-441: a limit of 0 is falsy and leaves the list as it is *)
LimitStage(rows, plan) ==
  IF IsSome(plan.limit) /\ Get(plan.limit) # 0
  THEN Slice0(rows, Get(plan.limit)) ELSE rows

(* lines 443-447 *)
Output(plan, result) ==
  [plan |-> plan, resultCount |-> Len(result), results |-> result]

(* SEOAgent.executeDataOperations: [ok, value | error] *)
executeDataOperations(data, plan) ==
  Only({ IF ~filtered.ok THEN [ok |-> FALSE, error |-> filtered.error]
         ELSE Only({ IF ~grouped.ok THEN [ok |-> FALSE, error |-> grouped.error]
                     ELSE Only({ [ok |-> TRUE, value |-> Output(plan, result)]
                                 : result \in
                                     { LimitStage(sorted, plan)
                                       : sorted \in
                                           {SortStage(grouped.rows, plan)} } })
                     : grouped \in {GroupStage(filtered.rows, plan)} })
         : filtered \in {FilterStage(data, plan)} })

(* Spreadsheets the data provider may return *)
SheetRow(address, protocol, words) ==
  [Address |-> Str(address), Protocol |-> Str(protocol), Words |-> Str(words)]

AuditSheet ==
  <<SheetRow(<<"/","a">>, <<"h","t","t","p","s">>, <<"7","0">>),
    SheetRow(<<"/","b">>, <<"h","t","t","p">>, <<"9">>),
    SheetRow(<<"/","c">>, <<"H","T","T","P">>, <<"7","0">>)>>

Sheets == {AuditSheet, <<>>}

(* a sheet with a cell that reads like an inherited property name *)
PrototypeSheet ==
  <<SheetRow(<<"/","a">>, <<"h","t","t","p","s">>, <<"7","0">>),
    SheetRow(<<"/","d">>, <<"c","o","n","s","t","r","u","c","t","o","r">>,
             <<"9">>)>>

ExecSheets == Sheets \cup {PrototypeSheet}

Clause(column, operator, value) ==
  Some([column |-> column, operator |-> operator, value |-> value])

SeoPlanTable ==
  [b \in {"notHttps", "groupByProtocol", "nullClause"} |->
    CASE b = "notHttps" ->
           SeoPlan(Some(<<Clause("Protocol", "!=", Str(<<"h","t","t","p","s">>))>>),
                   None, None, None)
      [] b = "groupByProtocol" ->
           SeoPlan(None, Some("Protocol"),
                   Some([column |-> "count", desc |-> TRUE]), Some(10))
      [] b = "nullClause" ->
           SeoPlan(Some(<<None>>), None, None, None)]

SeoPlanReplies ==
  {Some(<<"{", b, "}">>) : b \in DOMAIN SeoPlanTable}
  \cup {Some(<<"Plan: ", "{", "notHttps", "}">>),
        Some(<<"No plan.">>),
        Some(<<"{", "\"filters\": [", "}">>),
        None}

SeoExplanationReplies == {Some(<<"Two URLs are not served over HTTPS.">>), None}

----------------------------------------------------------------------------
(* Queries *)

Queries ==
  {<<"S","E","O"," ","a","u","d","i","t">>,
   <<"M","e","t","a","?">>,
   <<"l","o","n","g"," ","T","i","t","l","e","s">>,
   <<"t","o","p"," ","p","a","g","e","s">>}

(* the queries whole query flows are run with *)
RoutedQueries ==
  {<<"M","e","t","a","?">>, <<"t","o","p"," ","p","a","g","e","s">>}

PropertyIds == {None, Some(<<>>), Some(<<"516821164">>)}
SpreadsheetIds == {None, Some(<<"sheet-1">>)}

(* SEO_SPREADSHEET_ID and whether SEOAgent.initializeAuth succeeded *)
Environments ==
  {[SEO_SPREADSHEET_ID |-> None, seoInitOk |-> TRUE],
   [SEO_SPREADSHEET_ID |-> None, seoInitOk |-> FALSE],
   [SEO_SPREADSHEET_ID |-> Some(<<"sheet-0">>), seoInitOk |-> TRUE],
   [SEO_SPREADSHEET_ID |-> Some(<<"sheet-0">>), seoInitOk |-> FALSE]}

ClassifierReplies ==
  {Some(Analytics), Some(Seo), Some(Both),
   Some(<<" ","S","E","O","\n">>), Some(<<"B","o","t","h">>),
   Some(<<"m","a","y","b","e">>), Some(<<"s","e","o",".">>), None}

AggregationReplies ==
  {Some(<<"Traffic and SEO findings, combined.">>), Some(<<>>), None}

----------------------------------------------------------------------------
(* POST /query: request bodies and queryRequestSchema *)

JsonAbsent == <<"absent", <<>>>>
JsonNull == <<"null", <<>>>>
JsonString(chars) == <<"string", chars>>
JsonNumber(chars) == <<"number", chars>>

Body(query, propertyId, spreadsheetId) ==
  [query |-> query, propertyId |-> propertyId, spreadsheetId |-> spreadsheetId]

NoBody == Body(JsonAbsent, JsonAbsent, JsonAbsent)

(* z.string().optional() *)
zOptionalString(v) == v[1] \in {"absent", "string"}

OptionOf(v) == IF v[1] = "string" THEN Some(v[2]) ELSE None

statusCode_ErrorAs400(result) == IF result.success THEN 200 ELSE 400

(* line 146 *)
statusCode(result) == IF result.success THEN 200 ELSE 500

(* queryRequestSchema.safeParse(req.body): [success, data] *)
safeParse(b) ==
  IF /\ b.query[1] = "string" /\ Len(b.query[2]) >= 1
     /\ zOptionalString(b.propertyId)
     /\ zOptionalString(b.spreadsheetId)
  THEN [success |-> TRUE,
        data |-> [query |-> b.query[2],
                  propertyId |-> OptionOf(b.propertyId),
                  spreadsheetId |-> OptionOf(b.spreadsheetId)]]
  ELSE [success |-> FALSE]

(* the bodies clients post *)
Bodies ==
  {Body(JsonString(q), p, s) :
     q \in RoutedQueries,
     p \in {JsonAbsent, JsonString(<<>>), JsonString(<<"516821164">>)},
     s \in {JsonAbsent, JsonString(<<"sheet-1">>)}}
  \cup {NoBody,
        Body(JsonString(<<>>), JsonAbsent, JsonAbsent),
        Body(JsonNumber(<<"4","2">>), JsonAbsent, JsonAbsent),
        Body(JsonString(<<"M","e","t","a","?">>), JsonNumber(<<"516821164">>),
             JsonAbsent),
        Body(JsonString(<<"M","e","t","a","?">>), JsonAbsent, JsonNull)}

----------------------------------------------------------------------------
(* State of one query *)

VARIABLES
  request,    \* the QueryRequest
  env,        \* SEO_SPREADSHEET_ID and whether SEOAgent.initializeAuth succeeded
  oPc,        \* Orchestrator.processQuery: received, classified, dispatched,
              \* aggregating, done
  intent,     \* the intent detectIntent returned, None before
  response,   \* the OrchestratorResponse returned, None before
  aggregatedResponse,  \* routeToBoth's local: the text aggregateResponses
                       \* returned, None before
  classifierReply,     \* detectIntent's local `response`, recorded only by
                       \* SpecIntent
  aPc,        \* AnalyticsAgent.processQuery: idle, infer, validate, fetch,
              \* explain, returned
  aPlan, aData, aResult,
  aReply,     \* inferReportingPlan's local `response`: the text the gateway
              \* replied with, None before and when the call threw
  sPc,        \* SEOAgent.processQuery: idle, init, resolve, load, infer,
              \* execute, explain, returned
  sSheetId, sData, sPlan, sResults, sResult,
  sReply,     \* inferDataPlan's local `response`, likewise
  calls,      \* how often each collaborator was called
  reports,    \* the requests handed to runReport
  now,        \* Date.now()
  gPc,        \* LiteLLMClient.chat: idle, request, returned, failed
  attempt,    \* chat's loop counter
  lastError,  \* chat's lastError: the message of the last caught Error
  delays,     \* the setTimeout delays chat has waited for, in order
  served,     \* what the gateway answered to chat's requests, in order
  gResult,    \* what chat returned or threw, None before
  hPc,        \* the POST /query handler: idle, validate, awaiting, responded
  body,       \* req.body
  httpStatus  \* the status code sent, None before

oVars == <<oPc, intent, response, aggregatedResponse, classifierReply>>
aVars == <<aPc, aPlan, aData, aResult, aReply>>
sVars == <<sPc, sSheetId, sData, sPlan, sResults, sResult, sReply>>
gVars == <<gPc, attempt, lastError, delays, served, gResult>>
hVars == <<hPc, body, httpStatus>>
vars == <<request, env, oVars, aVars, sVars, calls, reports, now, gVars, hVars>>

startTime == 0

Started ==
  /\ oPc = "received"
  /\ intent = None
  /\ response = None
  /\ aggregatedResponse = None
  /\ classifierReply = None
  /\ aPc = "idle" /\ aPlan = None /\ aData = None /\ aResult = None
  /\ aReply = None /\ sReply = None
  /\ sPc = "idle" /\ sSheetId = None /\ sData = None /\ sPlan = None
  /\ sResults = None /\ sResult = None
  /\ calls = [gateway |-> 0, exhausted |-> 0, runReport |-> 0,
              loadTable |-> 0, analytics |-> 0, seo |-> 0, aggregate |-> 0]
  /\ reports = <<>>
  /\ now = startTime

(* no request is being handled by the route: processQuery was called      *)
(* directly                                                                *)
RouteIdle == hPc = "idle" /\ body = NoBody /\ httpStatus = None

(* a client no chat call is running on *)
GatewayIdle ==
  /\ gPc = "idle" /\ attempt = 0 /\ lastError = None
  /\ delays = <<>> /\ served = <<>> /\ gResult = None

Init ==
  /\ request \in [query : RoutedQueries, propertyId : PropertyIds,
                   spreadsheetId : SpreadsheetIds]
  /\ env \in Environments
  /\ Started
  /\ GatewayIdle
  /\ RouteIdle

(* one more litellm.chat call, and whether it threw *)
Chatted(r) ==
  [calls EXCEPT !.gateway = @ + 1,
                !.exhausted = @ + (IF r.ok THEN 0 ELSE 1)]

Tick == now' = now + 1

----------------------------------------------------------------------------
(* Orchestrator *)

Metadata(i, agents) ==
  Some([intent |-> i, agentsUsed |-> agents, processingTime |-> now' - startTime])

(* processQuery lines 65-72: attach the metadata and return *)
Return(r) ==
  /\ response' = Some([r EXCEPT !.metadata =
        Metadata(Get(intent),
                 IF Get(intent) = Both THEN <<Analytics, Seo>>
                 ELSE <<Get(intent)>>)])
  /\ oPc' = "done"

Catch_NoMetadata(errorMessage) ==
  /\ response' = Some([success |-> FALSE,
                       response |-> <<"Failed to process query: ">> \o errorMessage,
                       data |-> None,
                       error |-> Some(errorMessage),
                       metadata |-> None])
  /\ oPc' = "done"

(* processQuery lines 73-86: the catch block *)
Catch(errorMessage) ==
  /\ response' = Some([success |-> FALSE,
                       response |-> <<"Failed to process query: ">> \o errorMessage,
                       data |-> None,
                       error |-> Some(errorMessage),
                       metadata |-> Metadata(Unknown, <<>>)])
  /\ oPc' = "done"

(* routeToAnalytics / routeToSEO lines 145-150, 159-164 *)
FromAgent(result) ==
  [success |-> result.success, response |-> result.explanation,
   data |-> result.data, error |-> result.error, metadata |-> None]

MissingPropertyId_UndefinedOnly(req) == req.propertyId = None

(* routeToAnalytics line 132, routeToBoth line 170 *)
MissingPropertyId(req) == ~Truthy(req.propertyId)

BothResponse_SeoOnly(analyticsResult, seoResult, aggregated) ==
  [success |-> seoResult.success,
   response |-> aggregated,
   data |-> Some([analytics |-> IF analyticsResult.success
                                THEN analyticsResult.data ELSE None,
                  seo |-> seoResult.data]),
   error |-> None,
   metadata |-> None]

(* routeToBoth lines 185-192 *)
BothResponse(analyticsResult, seoResult, aggregated) ==
  [success |-> analyticsResult.success /\ seoResult.success,
   response |-> aggregated,
   data |-> Some([analytics |-> IF analyticsResult.success
                                THEN analyticsResult.data ELSE None,
                  seo |-> seoResult.data]),
   error |-> None,
   metadata |-> None]

NoPropertyIdResult_Skipped ==
  [success |-> TRUE, data |-> None, explanation |-> <<>>, error |-> None]

(* routeToBoth line 177: the result standing in for the analytics agent *)
NoPropertyIdResult ==
  [success |-> FALSE, data |-> None,
   explanation |-> <<"No propertyId provided">>,
   error |-> Some(<<"Missing propertyId">>)]

DetectIntent_FallbackOnFailure ==
  /\ Tick
  /\ oPc = "received"
  /\ \E script \in GatewayScripts(ClassifierReplies) :
       LET r == chat(script)
       IN /\ calls' = Chatted(r)
          /\ intent' = Some(detectIntent(IF r.ok THEN r.text ELSE <<>>,
                                         request.query, request.propertyId))
          /\ oPc' = "classified"
          /\ UNCHANGED response
  /\ UNCHANGED <<hVars, gVars, request, env, aVars, sVars, reports,
                 aggregatedResponse, classifierReply>>

(* line 45: detectIntent's gateway call returns or fails *)
DetectIntent ==
  /\ Tick
  /\ oPc = "received"
  /\ \E script \in GatewayScripts(ClassifierReplies) :
       LET r == chat(script)
       IN /\ calls' = Chatted(r)
          /\ IF r.ok
             THEN /\ intent' = Some(detectIntent(r.text, request.query,
                                                 request.propertyId))
                  /\ oPc' = "classified"
                  /\ UNCHANGED response
             ELSE /\ UNCHANGED intent
                  /\ Catch(r.error)
  /\ UNCHANGED <<hVars, gVars, request, env, aVars, sVars, reports, aggregatedResponse,
                 classifierReply>>

(* lines 51-63: the switch, up to the first await of the chosen route *)
Dispatch ==
  /\ oPc = "classified"
  /\ UNCHANGED <<hVars, gVars, request, env, intent, reports, now, aPlan, aData,
                 sSheetId, sData, sPlan, sResults, sResult,
                 aggregatedResponse, classifierReply, sReply, aReply>>
  /\ CASE Get(intent) = Analytics ->
            IF MissingPropertyId(request)
            THEN /\ Return([success |-> FALSE,
                            response |-> <<"Analytics queries require a propertyId. Please provide a GA4 property ID in your request.">>,
                            data |-> None,
                            error |-> Some(<<"Missing propertyId">>),
                            metadata |-> None])
                 /\ UNCHANGED <<aPc, aResult, sPc, calls, aReply>>
            ELSE /\ aPc' = "infer"
                 /\ calls' = [calls EXCEPT !.analytics = @ + 1]
                 /\ oPc' = "dispatched"
                 /\ UNCHANGED <<response, aResult, sPc, aReply>>
       [] Get(intent) = Seo ->
            /\ sPc' = "init"
            /\ calls' = [calls EXCEPT !.seo = @ + 1]
            /\ oPc' = "dispatched"
            /\ UNCHANGED <<response, aPc, aResult, aReply>>
       [] Get(intent) = Both ->
            /\ IF ~MissingPropertyId(request)
               THEN /\ aPc' = "infer"
                    /\ UNCHANGED aResult
                    /\ calls' = [calls EXCEPT !.analytics = @ + 1, !.seo = @ + 1]
               ELSE /\ aPc' = "returned"
                    /\ aResult' = Some(NoPropertyIdResult)
                    /\ calls' = [calls EXCEPT !.seo = @ + 1]
            /\ sPc' = "init"
            /\ oPc' = "dispatched"
            /\ UNCHANGED response
       [] OTHER ->
            /\ Catch(<<"Unknown intent: ">> \o Get(intent))
            /\ UNCHANGED <<aPc, aResult, sPc, calls, aReply>>

(* routeToAnalytics lines 140-150: the agent has returned *)
AnalyticsReturned ==
  /\ Tick
  /\ oPc = "dispatched" /\ Get(intent) = Analytics /\ aPc = "returned"
  /\ Return(FromAgent(Get(aResult)))
  /\ UNCHANGED <<hVars, gVars, request, env, intent, aVars, sVars, calls, reports,
                 aggregatedResponse, classifierReply>>

(* routeToSEO lines 154-164: the agent has returned *)
SeoReturned ==
  /\ Tick
  /\ oPc = "dispatched" /\ Get(intent) = Seo /\ sPc = "returned"
  /\ Return(FromAgent(Get(sResult)))
  /\ UNCHANGED <<hVars, gVars, request, env, intent, aVars, sVars, calls, reports,
                 aggregatedResponse, classifierReply>>

BothReturned_FailFast ==
  /\ Tick
  /\ oPc = "dispatched" /\ Get(intent) = Both
  /\ \/ /\ aPc = "returned" /\ sPc = "returned"
        /\ oPc' = "aggregating"
        /\ UNCHANGED response
     \/ /\ aPc = "returned" /\ ~Get(aResult).success
        /\ Catch(Get(Get(aResult).error))
     \/ /\ sPc = "returned" /\ ~Get(sResult).success
        /\ Catch(Get(Get(sResult).error))
  /\ UNCHANGED <<hVars, gVars, request, env, intent, aVars, sVars, calls, reports,
                 aggregatedResponse, classifierReply>>

(* routeToBoth lines 169-183: Promise.all resolves once both have returned *)
BothReturned ==
  /\ Tick
  /\ oPc = "dispatched" /\ Get(intent) = Both
  /\ aPc = "returned" /\ sPc = "returned"
  /\ oPc' = "aggregating"
  /\ UNCHANGED <<hVars, gVars, request, env, intent, response, aVars, sVars, calls, reports,
                 aggregatedResponse, classifierReply>>

Aggregate_SkipOnFailure ==
  /\ Tick
  /\ oPc = "aggregating"
  /\ LET analyticsResult == Get(aResult)
         seoResult == Get(sResult)
     IN IF analyticsResult.success /\ seoResult.success
        THEN \E script \in GatewayScripts(AggregationReplies) :
               LET r == chat(script)
               IN /\ calls' = [Chatted(r) EXCEPT !.aggregate = @ + 1]
                  /\ IF r.ok
                     THEN /\ aggregatedResponse' = Some(r.text)
                          /\ Return(BothResponse(analyticsResult, seoResult,
                                                 r.text))
                     ELSE /\ UNCHANGED aggregatedResponse
                          /\ Catch(r.error)
        ELSE /\ UNCHANGED <<calls, aggregatedResponse>>
             /\ Return(BothResponse(analyticsResult, seoResult,
                                    analyticsResult.explanation
                                      \o seoResult.explanation))
  /\ UNCHANGED <<hVars, gVars, request, env, intent, aVars, sVars, reports,
                 classifierReply>>

(* routeToBoth lines 183-192 with aggregateResponses lines 195-222 *)
Aggregate ==
  /\ Tick
  /\ oPc = "aggregating"
  /\ \E script \in GatewayScripts(AggregationReplies) :
       LET r == chat(script)
           analyticsResult == Get(aResult)
           seoResult == Get(sResult)
       IN /\ calls' = [Chatted(r) EXCEPT !.aggregate = @ + 1]
          /\ IF r.ok
             THEN /\ aggregatedResponse' = Some(r.text)
                  /\ Return(BothResponse(analyticsResult, seoResult, r.text))
             ELSE /\ UNCHANGED aggregatedResponse
                  /\ Catch(r.error)
  /\ UNCHANGED <<hVars, gVars, request, env, intent, aVars, sVars, reports, classifierReply>>

----------------------------------------------------------------------------
(* AnalyticsAgent.processQuery *)

AnalyticsFailure_NoError(errorMessage) ==
  [success |-> FALSE, data |-> None,
   explanation |-> <<"Failed to process analytics query: ">> \o errorMessage,
   error |-> None]

(* lines 102-110: the catch block *)
AnalyticsFailure(errorMessage) ==
  [success |-> FALSE, data |-> None,
   explanation |-> <<"Failed to process analytics query: ">> \o errorMessage,
   error |-> Some(errorMessage)]

AFail(errorMessage) ==
  /\ aResult' = Some(AnalyticsFailure(errorMessage))
  /\ aPc' = "returned"

(* line 86: inferReportingPlan *)
AInfer ==
  /\ Tick
  /\ aPc = "infer"
  /\ \E script \in GatewayScripts(AnalyticsPlanReplies) :
       LET r == chat(script)
       IN /\ calls' = Chatted(r)
          /\ aReply' = IF r.ok THEN Some(r.text) ELSE None
          /\ IF ~r.ok THEN AFail(r.error) /\ UNCHANGED aPlan
             ELSE LET jsonMatch0 == jsonMatch(r.text)
                  IN IF ~IsSome(jsonMatch0)
                     THEN /\ AFail(<<"Failed to parse reporting plan from LLM response">>)
                          /\ UNCHANGED aPlan
                     ELSE LET parsed == JSONparse(Get(jsonMatch0), AnalyticsPlanTable)
                          IN IF ~parsed.ok
                             THEN AFail(parsed.error) /\ UNCHANGED aPlan
                             ELSE /\ aPlan' = Some(parsed.value)
                                  /\ aPc' = "validate"
                                  /\ UNCHANGED aResult
  /\ UNCHANGED <<hVars, gVars, request, env, oVars, sVars, reports, aData>>

(* line 89: validateFields *)
AValidate ==
  /\ Tick
  /\ aPc = "validate"
  /\ LET thrown == validateFields(Get(aPlan))
     IN IF IsSome(thrown) THEN AFail(Get(thrown))
        ELSE aPc' = "fetch" /\ UNCHANGED aResult
  /\ UNCHANGED <<hVars, gVars, request, env, oVars, sVars, calls, reports, aPlan, aData, aReply>>

(* line 92: executeGA4Query; runReport returns data or fails *)
AFetch ==
  /\ Tick
  /\ aPc = "fetch"
  /\ calls' = [calls EXCEPT !.runReport = @ + 1]
  /\ reports' = Append(reports, GA4Request(request.propertyId, Get(aPlan)))
  /\ \/ /\ aData' = Some(GA4Data)
        /\ aPc' = "explain"
        /\ UNCHANGED aResult
     \/ /\ AFail(<<"GA4 API request failed">>)
        /\ UNCHANGED aData
  /\ UNCHANGED <<hVars, gVars, request, env, oVars, sVars, aPlan, aReply>>

(* lines 95-101: generateExplanation, then the successful return.          *)
(* plan.metrics.join / plan.dimensions.join throw a TypeError, before the  *)
(* gateway is called, when the plan has no such list                       *)
AExplain ==
  /\ Tick
  /\ aPc = "explain"
  /\ IF ~IsSome(Get(aPlan).metrics) \/ ~IsSome(Get(aPlan).dimensions)
     THEN /\ AFail(<<"Cannot read properties of undefined (reading 'join')">>)
          /\ UNCHANGED calls
     ELSE \E script \in GatewayScripts(ExplanationReplies) :
            LET r == chat(script)
            IN /\ calls' = Chatted(r)
               /\ IF ~r.ok THEN AFail(r.error)
                  ELSE /\ aResult' = Some([success |-> TRUE, data |-> aData,
                                           explanation |-> r.text, error |-> None])
                       /\ aPc' = "returned"
  /\ UNCHANGED <<hVars, gVars, request, env, oVars, sVars, reports, aPlan, aData, aReply>>

----------------------------------------------------------------------------
(* SEOAgent.processQuery *)

SeoFailure_FixedText(errorMessage) ==
  [success |-> FALSE, data |-> None,
   explanation |-> <<"Failed to process SEO query">>,
   error |-> Some(errorMessage)]

(* lines 309-317: the catch block *)
SeoFailure(errorMessage) ==
  [success |-> FALSE, data |-> None,
   explanation |-> <<"Failed to process SEO query: ">> \o errorMessage,
   error |-> Some(errorMessage)]

SFail(errorMessage) ==
  /\ sResult' = Some(SeoFailure(errorMessage))
  /\ sPc' = "returned"

(* line 283: ensureInitialized awaits the promise of initializeAuth *)
SInit ==
  /\ Tick
  /\ sPc = "init"
  /\ IF env.seoInitOk THEN sPc' = "resolve" /\ UNCHANGED sResult
     ELSE SFail(<<"SEO Agent initialization failed. Ensure credentials.json exists at project root.">>)
  /\ UNCHANGED <<hVars, gVars, request, env, oVars, aVars, calls, reports,
                 sSheetId, sData, sPlan, sResults, sReply>>

SResolve_FirstSheet ==
  /\ Tick
  /\ sPc = "resolve"
  /\ sSheetId' = IF Truthy(request.spreadsheetId) THEN request.spreadsheetId
                 ELSE IF Truthy(env.SEO_SPREADSHEET_ID)
                 THEN env.SEO_SPREADSHEET_ID
                 ELSE Some(<<"sheet-0">>)
  /\ sPc' = "load"
  /\ UNCHANGED <<hVars, gVars, request, env, oVars, aVars, calls, reports,
                 sData, sPlan, sResults, sResult, sReply>>

(* lines 287-290: the spreadsheet id of the query, else the configured one *)
SResolve ==
  /\ Tick
  /\ sPc = "resolve"
  /\ LET spreadsheetId == IF Truthy(request.spreadsheetId)
                          THEN request.spreadsheetId
                          ELSE env.SEO_SPREADSHEET_ID
     IN IF ~Truthy(spreadsheetId)
        THEN /\ SFail(<<"No spreadsheet ID provided. Set SEO_SPREADSHEET_ID or include in request.">>)
             /\ UNCHANGED sSheetId
        ELSE /\ sSheetId' = spreadsheetId
             /\ sPc' = "load"
             /\ UNCHANGED sResult
  /\ UNCHANGED <<hVars, gVars, request, env, oVars, aVars, calls, reports,
                 sData, sPlan, sResults, sReply>>

(* line 293: loadSpreadsheetData returns the rows or fails *)
SLoad ==
  /\ Tick
  /\ sPc = "load"
  /\ calls' = [calls EXCEPT !.loadTable = @ + 1]
  /\ \/ \E sheet \in Sheets :
          /\ sData' = Some(sheet)
          /\ sPc' = "infer"
          /\ UNCHANGED sResult
     \/ /\ SFail(<<"Google Sheets API request failed">>)
        /\ UNCHANGED sData
  /\ UNCHANGED <<hVars, gVars, request, env, oVars, aVars, reports, sSheetId, sPlan, sResults, sReply>>

SInfer_EmptyPlan ==
  /\ Tick
  /\ sPc = "infer"
  /\ \E script \in GatewayScripts(SeoPlanReplies) :
       LET r == chat(script)
       IN /\ calls' = Chatted(r)
          /\ sReply' = IF r.ok THEN Some(r.text) ELSE None
          /\ IF ~r.ok THEN SFail(r.error) /\ UNCHANGED sPlan
             ELSE LET jsonMatch0 == jsonMatch(r.text)
                      parsed == IF IsSome(jsonMatch0)
                                THEN JSONparse(Get(jsonMatch0), SeoPlanTable)
                                ELSE [ok |-> FALSE]
                  IN /\ sPlan' = Some(IF parsed.ok THEN parsed.value
                                      ELSE SeoPlan(None, None, None, None))
                     /\ sPc' = "execute"
                     /\ UNCHANGED sResult
  /\ UNCHANGED <<hVars, gVars, request, env, oVars, aVars, reports, sSheetId, sData, sResults>>

(* line 296: inferDataPlan *)
SInfer ==
  /\ Tick
  /\ sPc = "infer"
  /\ \E script \in GatewayScripts(SeoPlanReplies) :
       LET r == chat(script)
       IN /\ calls' = Chatted(r)
          /\ sReply' = IF r.ok THEN Some(r.text) ELSE None
          /\ IF ~r.ok THEN SFail(r.error) /\ UNCHANGED sPlan
             ELSE LET jsonMatch0 == jsonMatch(r.text)
                  IN IF ~IsSome(jsonMatch0)
                     THEN /\ SFail(<<"Failed to parse data plan from LLM response">>)
                          /\ UNCHANGED sPlan
                     ELSE LET parsed == JSONparse(Get(jsonMatch0), SeoPlanTable)
                          IN IF ~parsed.ok
                             THEN SFail(parsed.error) /\ UNCHANGED sPlan
                             ELSE /\ sPlan' = Some(parsed.value)
                                  /\ sPc' = "execute"
                                  /\ UNCHANGED sResult
  /\ UNCHANGED <<hVars, gVars, request, env, oVars, aVars, reports, sSheetId, sData, sResults>>

SExecute_OrderByClock ==
  /\ Tick
  /\ sPc = "execute"
  /\ LET results == executeDataOperations(Get(sData), Get(sPlan))
     IN IF ~results.ok THEN SFail(results.error) /\ UNCHANGED sResults
        ELSE /\ sResults' = Some([results.value EXCEPT !.results =
                     IF now % 2 = 1
                     THEN [i \in 1..Len(@) |-> @[Len(@) + 1 - i]]
                     ELSE @])
             /\ sPc' = "explain"
             /\ UNCHANGED sResult
  /\ UNCHANGED <<hVars, gVars, request, env, oVars, aVars, calls, reports,
                 sSheetId, sData, sPlan, sReply>>

(* line 299: executeDataOperations *)
SExecute ==
  /\ Tick
  /\ sPc = "execute"
  /\ LET results == executeDataOperations(Get(sData), Get(sPlan))
     IN IF ~results.ok THEN SFail(results.error) /\ UNCHANGED sResults
        ELSE /\ sResults' = Some(results.value)
             /\ sPc' = "explain"
             /\ UNCHANGED sResult
  /\ UNCHANGED <<hVars, gVars, request, env, oVars, aVars, calls, reports,
                 sSheetId, sData, sPlan, sReply>>

(* lines 302-308: generateExplanation, then the successful return *)
SExplain ==
  /\ Tick
  /\ sPc = "explain"
  /\ \E script \in GatewayScripts(SeoExplanationReplies) :
       LET r == chat(script)
       IN /\ calls' = Chatted(r)
          /\ IF ~r.ok THEN SFail(r.error)
             ELSE /\ sResult' = Some([success |-> TRUE, data |-> sResults,
                                      explanation |-> r.text, error |-> None])
                  /\ sPc' = "returned"
  /\ UNCHANGED <<hVars, gVars, request, env, oVars, aVars, reports,
                 sSheetId, sData, sPlan, sResults, sReply>>

----------------------------------------------------------------------------

Next ==
  \/ DetectIntent \/ Dispatch
  \/ AnalyticsReturned \/ SeoReturned \/ BothReturned \/ Aggregate
  \/ AInfer \/ AValidate \/ AFetch \/ AExplain
  \/ SInit \/ SResolve \/ SLoad \/ SInfer \/ SExecute \/ SExplain

Spec == Init /\ [][Next]_vars

(* detectIntent and the switch alone, keeping the gateway's reply next to   *)
(* the intent it was turned into                                           *)
Classify ==
  /\ oPc = "received"
  /\ \E script \in HttpScripts(ClassifierReplies) :
       LET r == chat(script)
       IN /\ r.ok
          /\ classifierReply' = Some(r.text)
          /\ intent' = Some(detectIntent(r.text, request.query,
                                         request.propertyId))
  /\ oPc' = "classified"
  /\ UNCHANGED <<hVars, gVars, request, env, response, aggregatedResponse, aVars, sVars,
                 calls, reports, now>>

InitIntent ==
  /\ request \in [query : Queries, propertyId : PropertyIds,
                   spreadsheetId : SpreadsheetIds]
  /\ env \in Environments
  /\ Started
  /\ GatewayIdle
  /\ RouteIdle

NextIntent == Classify \/ Dispatch

SpecIntent == InitIntent /\ [][NextIntent]_vars

(* every awaited call eventually returns or fails *)
FairSpec == Spec /\ WF_vars(Next)

----------------------------------------------------------------------------
(* SEOAgent.executeDataOperations on its own: the agent stands at line 299  *)
(* with rows loaded and a plan inferred                                     *)

MaxRuns == 2

ExecValues == <<Str(<<"h","t","t","p">>), Str(<<"7","0">>), Num(9)>>

(* the clauses a plan may carry, by column, operator and value: known and  *)
(* unknown operators, columns the rows have and one they do not have, and  *)
(* a null entry                                                            *)
ClauseKeys ==
  ({"Protocol", "Words", "Missing"}
     \X {"==", "!=", ">", "<", "contains", "~"}
     \X (1..Len(ExecValues)))
  \cup {<<"", "null", 1>>}

ClauseOf(key) ==
  IF key[2] = "null" THEN None
  ELSE Clause(key[1], key[2], ExecValues[key[3]])

FilterKeyLists(n) == UNION {[1..k -> ClauseKeys] : k \in 0..n}

FiltersOf(keys) == [i \in 1..Len(keys) |-> ClauseOf(keys[i])]

(* plans by <<filters, groupBy, sortBy, limit>>: filter lists of up to two *)
(* clauses alone, and shorter ones with grouping, sorting and a limit      *)
ExecPlanKeys ==
  ({Some(keys) : keys \in FilterKeyLists(2)} \X {None} \X {None} \X {None})
  \cup
  (({None} \cup {Some(keys) : keys \in FilterKeyLists(1)})
     \X {None, Some("Protocol")}
     \X {None,
         Some([column |-> "Words", desc |-> FALSE]),
         Some([column |-> "Words", desc |-> TRUE]),
         Some([column |-> "count", desc |-> TRUE])}
     \X {None, Some(0), Some(2)})

ExecPlanOf(key) ==
  SeoPlan(IF IsSome(key[1]) THEN Some(FiltersOf(Get(key[1]))) ELSE None,
          key[2], key[3], key[4])

(* the agent is asked again and arrives at line 299 with equal rows and an *)
(* equal plan; sResults and sResult still hold what the run before gave    *)
SAgain ==
  /\ sPc \in {"explain", "returned"}
  /\ now - startTime < MaxRuns
  /\ sPc' = "execute"
  /\ UNCHANGED <<hVars, gVars, request, env, oVars, aVars, calls, reports, now,
                 sSheetId, sData, sPlan, sResults, sResult, sReply>>

InitExecute ==
  /\ request = [query |-> <<"M","e","t","a","?">>, propertyId |-> None,
                spreadsheetId |-> Some(<<"sheet-1">>)]
  /\ env = [SEO_SPREADSHEET_ID |-> None, seoInitOk |-> TRUE]
  /\ oPc = "dispatched" /\ intent = Some(Seo) /\ response = None
  /\ aggregatedResponse = None /\ classifierReply = None
  /\ aPc = "idle" /\ aPlan = None /\ aData = None /\ aResult = None
  /\ aReply = None /\ sReply = None
  /\ sPc = "execute" /\ sSheetId = Some(<<"sheet-1">>)
  /\ sData \in {Some(sheet) : sheet \in ExecSheets}
  /\ \E key \in ExecPlanKeys : sPlan = Some(ExecPlanOf(key))
  /\ sResults = None /\ sResult = None
  /\ calls = [gateway |-> 2, exhausted |-> 0, runReport |-> 0,
              loadTable |-> 1, analytics |-> 0, seo |-> 1, aggregate |-> 0]
  /\ reports = <<>>
  /\ now = startTime
  /\ GatewayIdle
  /\ RouteIdle

NextExecute == SExecute \/ SAgain

SpecExecute == InitExecute /\ [][NextExecute]_vars

----------------------------------------------------------------------------
(* LiteLLMClient.chat, one loop iteration at a time *)

HttpOverloaded == [kind |-> "notok", status |-> "503", text |-> "overloaded"]

(* an OK status whose body response.json() cannot decode (line 80) *)
HttpUndecodable == [kind |-> "exc", message |-> "Unexpected end of JSON input"]

(* what the gateway may answer to one request *)
ChatOutcomes ==
  {HttpOk(c) : c \in {Some(<<"seo">>), Some(<<>>), None}}
  \cup HttpFailures \cup {HttpOverloaded, HttpUndecodable}

(* the message of the Error a request outcome makes chat's try block throw; *)
(* None for a 429, which throws nothing (line 72: continue)                 *)
ThrownMessage(r) ==
  CASE r.kind = "notok" -> Some(<<"LiteLLM API error (", r.status, "): ", r.text>>)
    [] r.kind = "exc" -> Some(<<r.message>>)
    [] OTHER -> None

(* lines 57-91: one iteration of the loop, with the wait that ends it *)
ChatAttempt ==
  /\ gPc = "request"
  /\ attempt < MAX_RETRIES
  /\ \E r \in ChatOutcomes :
       /\ served' = Append(served, r)
       /\ CASE r.kind = "rate" ->
                 /\ delays' = Append(delays, backoffTime(attempt))
                 /\ attempt' = attempt + 1
                 /\ UNCHANGED <<gPc, lastError, gResult>>
            [] r.kind = "ok" ->
                 /\ gResult' = Some([ok |-> TRUE,
                                     text |-> IF Truthy(r.content)
                                              THEN Get(r.content) ELSE <<>>])
                 /\ gPc' = "returned"
                 /\ UNCHANGED <<attempt, lastError, delays>>
            [] OTHER ->
                 /\ lastError' = ThrownMessage(r)
                 /\ delays' = IF attempt < MAX_RETRIES - 1
                              THEN Append(delays, backoffTime(attempt))
                              ELSE delays
                 /\ attempt' = attempt + 1
                 /\ UNCHANGED <<gPc, gResult>>
  /\ UNCHANGED <<hVars, request, env, oVars, aVars, sVars, calls, reports, now>>

ChatExhausted_Restart ==
  /\ gPc = "request"
  /\ attempt >= MAX_RETRIES
  /\ attempt' = 0
  /\ UNCHANGED <<gPc, gResult, lastError, delays, served>>
  /\ UNCHANGED <<hVars, request, env, oVars, aVars, sVars, calls, reports, now>>

(* line 93: the loop has ended without a return *)
ChatExhausted ==
  /\ gPc = "request"
  /\ attempt >= MAX_RETRIES
  /\ gResult' = Some([ok |-> FALSE, error |-> ExhaustionError(lastError)])
  /\ gPc' = "failed"
  /\ UNCHANGED <<attempt, lastError, delays, served>>
  /\ UNCHANGED <<hVars, request, env, oVars, aVars, sVars, calls, reports, now>>

(* chat has just been called *)
InitChat ==
  /\ request = [query |-> <<"M","e","t","a","?">>, propertyId |-> None,
                spreadsheetId |-> None]
  /\ env = [SEO_SPREADSHEET_ID |-> None, seoInitOk |-> TRUE]
  /\ Started
  /\ gPc = "request" /\ attempt = 0 /\ lastError = None
  /\ delays = <<>> /\ served = <<>> /\ gResult = None
  /\ RouteIdle

NextChat == ChatAttempt \/ ChatExhausted

SpecChat == InitChat /\ [][NextChat]_vars

(* every fetch and every timer of a chat call eventually completes *)
FairSpecChat == SpecChat /\ WF_vars(NextChat)

----------------------------------------------------------------------------
(* The POST /query handler around processQuery *)

(* lines 124-143: validate the body; answer 400 or call processQuery *)
PostQuery ==
  /\ hPc = "validate"
  /\ LET validation == safeParse(body)
     IN IF ~validation.success
        THEN /\ httpStatus' = Some(400)
             /\ hPc' = "responded"
             /\ UNCHANGED <<request, oPc>>
        ELSE /\ request' = validation.data
             /\ oPc' = "received"
             /\ hPc' = "awaiting"
             /\ UNCHANGED httpStatus
  /\ UNCHANGED <<body, env, intent, response, aggregatedResponse,
                 classifierReply, aVars, sVars, calls, reports, now, gVars>>

(* lines 145-147: processQuery has returned *)
Respond ==
  /\ hPc = "awaiting"
  /\ oPc = "done"
  /\ httpStatus' = Some(statusCode(Get(response)))
  /\ hPc' = "responded"
  /\ UNCHANGED <<body, request, env, oVars, aVars, sVars, calls, reports, now,
                 gVars>>

(* a body has arrived; processQuery has not been called *)
InitRoute ==
  /\ body \in Bodies
  /\ hPc = "validate" /\ httpStatus = None
  /\ request = [query |-> <<>>, propertyId |-> None, spreadsheetId |-> None]
  /\ env \in Environments
  /\ oPc = "idle"
  /\ intent = None /\ response = None
  /\ aggregatedResponse = None /\ classifierReply = None
  /\ aPc = "idle" /\ aPlan = None /\ aData = None /\ aResult = None
  /\ aReply = None /\ sReply = None
  /\ sPc = "idle" /\ sSheetId = None /\ sData = None /\ sPlan = None
  /\ sResults = None /\ sResult = None
  /\ calls = [gateway |-> 0, exhausted |-> 0, runReport |-> 0,
              loadTable |-> 0, analytics |-> 0, seo |-> 0, aggregate |-> 0]
  /\ reports = <<>>
  /\ now = startTime
  /\ GatewayIdle

NextRoute == PostQuery \/ Next \/ Respond

SpecRoute == InitRoute /\ [][NextRoute]_vars

TypeOK ==
  /\ oPc \in {"idle", "received", "classified", "dispatched", "aggregating", "done"}
  /\ aPc \in {"idle", "infer", "validate", "fetch", "explain", "returned"}
  /\ sPc \in {"idle", "init", "resolve", "load", "infer", "execute",
               "explain", "returned"}

----------------------------------------------------------------------------
(* Properties *)

Names(o) == Range(OrEmpty(o))

NamesOutsideAllowlist(plan) ==
  \/ Names(plan.metrics) \ Range(VALID_METRICS) # {}
  \/ Names(plan.dimensions) \ Range(VALID_DIMENSIONS) # {}

(* C1: a reporting plan naming a metric outside VALID_METRICS or a         *)
(* dimension outside VALID_DIMENSIONS never reaches runReport (no call, no *)
(* request), and the analytics agent returns success = false for it.       *)
C1_InvalidPlanNeverFetched ==
  (IsSome(aPlan) /\ NamesOutsideAllowlist(Get(aPlan))) =>
     /\ calls.runReport = 0
     /\ reports = <<>>
     /\ aPc \in {"validate", "returned"}
     /\ (aPc = "returned" => ~Get(aResult).success)

C1_Witness ==
  /\ aPc = "returned"
  /\ IsSome(aPlan)
  /\ Names(Get(aPlan).metrics) \subseteq Range(VALID_METRICS)
  /\ Names(Get(aPlan).dimensions) \ Range(VALID_DIMENSIONS) # {}
  /\ ~Get(aResult).success
  /\ calls.runReport = 0

IsText(t) == DOMAIN t = 1..Len(t)

WellFormedResponse(r) ==
  /\ r.success \in BOOLEAN
  /\ IsText(r.response)
  /\ IsSome(r.metadata)
  /\ IsText(Get(r.metadata).intent) /\ Get(r.metadata).intent # <<>>
  /\ IsText(Get(r.metadata).agentsUsed)
  /\ Get(r.metadata).processingTime \in Nat

(* C2: processQuery always ends, whatever the gateway, runReport and the   *)
(* table load answer, and what it returns is an OrchestratorResponse with  *)
(* success, response text and metadata {intent, agentsUsed,                *)
(* processingTime}.                                                        *)
C2_AlwaysReturnsWellFormed ==
  /\ <>(oPc = "done")
  /\ [](oPc = "done" => IsSome(response) /\ WellFormedResponse(Get(response)))

C2_Witness ==
  /\ oPc = "done"
  /\ IsSome(response)
  /\ WellFormedResponse(Get(response))
  /\ Get(response).metadata = Some([intent |-> Unknown, agentsUsed |-> <<>>,
                                    processingTime |-> now])
  /\ sPc = "returned" /\ aPc = "returned"

AgentsFor(i) == IF i = Both THEN <<Analytics, Seo>> ELSE <<i>>

(* C3: once classification has produced an intent, the returned response   *)
(* carries that intent and the agent list of that intent in its metadata,  *)
(* whatever happens during dispatch and aggregation.                       *)
C3_MetadataMatchesIntent ==
  (oPc = "done" /\ IsSome(intent)) =>
     /\ Get(Get(response).metadata).intent = Get(intent)
     /\ Get(Get(response).metadata).agentsUsed = AgentsFor(Get(intent))

(* C4: every response returned with success = false carries an error field *)
(* next to its response text.                                              *)
C4_FailureCarriesError ==
  (oPc = "done" /\ ~Get(response).success) =>
     /\ IsSome(Get(response).error)
     /\ IsText(Get(response).response)

(* what an agent hands back when one of its steps has failed *)
FailureShaped(r) ==
  /\ ~r.success
  /\ IsSome(r.error)
  /\ includes(r.explanation, Get(r.error))

(* C5: whenever an agent's processQuery finishes, it does so by returning  *)
(* an AgentResult; only the last step (the explanation) can return         *)
(* success, and a result without success carries the error message and an  *)
(* explanation containing it.                                              *)
C5_NoExceptionCrossesAgentBoundary ==
  [][ /\ (aPc \notin {"idle", "returned"} /\ aPc' = "returned") =>
           /\ IsSome(aResult')
           /\ (Get(aResult').success => aPc = "explain")
           /\ (~Get(aResult').success => FailureShaped(Get(aResult')))
      /\ (sPc \notin {"idle", "returned"} /\ sPc' = "returned") =>
           /\ IsSome(sResult')
           /\ (Get(sResult').success => sPc = "explain")
           /\ (~Get(sResult').success => FailureShaped(Get(sResult')))
    ]_vars

C5_Witness ==
  /\ sPc = "returned" /\ IsSome(sPlan) /\ sResults = None
  /\ FailureShaped(Get(sResult))
  /\ aPc = "returned" /\ IsSome(aPlan) /\ aData = None
  /\ FailureShaped(Get(aResult))
  /\ calls.analytics = 1

(* the replies of the model by the label they spell, case and surrounding  *)
(* blanks aside                                                            *)
SpelledLabel(reply) ==
  CASE reply \in {Analytics} -> Some(Analytics)
    [] reply \in {Seo, <<" ","S","E","O","\n">>} -> Some(Seo)
    [] reply \in {Both, <<"B","o","t","h">>} -> Some(Both)
    [] OTHER -> None

(* the queries of the model that contain 'seo', 'title' or 'meta' *)
KeywordQueries ==
  {<<"S","E","O"," ","a","u","d","i","t">>,
   <<"M","e","t","a","?">>,
   <<"l","o","n","g"," ","T","i","t","l","e","s">>}

(* C6: a reply that spells one of the three labels yields that label,      *)
(* whether or not a propertyId is present; any other reply yields          *)
(* analytics when a propertyId is present (whatever the question), else    *)
(* seo when the question contains 'seo', 'title' or 'meta', else analytics.*)
C6_FallbackTable ==
  IsSome(classifierReply) =>
    LET label == SpelledLabel(Get(classifierReply))
    IN Get(intent) =
         IF IsSome(label) THEN Get(label)
         ELSE IF Truthy(request.propertyId) THEN Analytics
         ELSE IF request.query \in KeywordQueries THEN Seo
         ELSE Analytics

C6_Witness ==
  /\ classifierReply = Some(<<"m","a","y","b","e">>)
  /\ Truthy(request.propertyId)
  /\ request.query \in KeywordQueries
  /\ intent = Some(Analytics)

(* C7: whatever text the gateway replies, detectIntent yields analytics,   *)
(* seo or both, so the switch never takes its 'Unknown intent' branch.     *)
C7_IntentAlwaysValid ==
  /\ IsSome(classifierReply) => Get(intent) \in {Analytics, Seo, Both}
  /\ (IsSome(response) /\ IsSome(Get(response).error)) =>
       Get(response).error \notin
         {Some(<<"Unknown intent: ">> \o label) :
            label \in {toLowerCase(trim(OrEmpty(c))) : c \in ClassifierReplies}}

C7_Witness ==
  /\ classifierReply = Some(<<>>)
  /\ intent = Some(Seo)
  /\ oPc = "dispatched"
  /\ sPc = "init"

(* C8: an analytics query without propertyId is answered with success =    *)
(* false and the error 'Missing propertyId'; after the classification call *)
(* no agent is invoked and no gateway, runReport or table-load call made.  *)
C8_MissingPropertyIdShortCircuits ==
  (IsSome(intent) /\ Get(intent) = Analytics /\ ~Truthy(request.propertyId)) =>
     /\ calls = [gateway |-> 1, exhausted |-> 0, runReport |-> 0,
                 loadTable |-> 0, analytics |-> 0, seo |-> 0, aggregate |-> 0]
     /\ aPc = "idle" /\ sPc = "idle"
     /\ oPc \in {"classified", "done"}
     /\ (oPc = "done" =>
           /\ ~Get(response).success
           /\ Get(response).error = Some(<<"Missing propertyId">>)
           /\ Get(response).response # <<>>)

C8_Witness ==
  /\ oPc = "done"
  /\ intent = Some(Analytics)
  /\ request.propertyId = Some(<<>>)
  /\ Get(response).error = Some(<<"Missing propertyId">>)
  /\ calls.analytics = 0

(* C9: a 'both' query whose analytics branch failed and whose aggregation  *)
(* call returned is answered with success = false and a non-empty response *)
(* text.                                                                   *)
C9_FailedBranchStillAnswers ==
  (oPc = "done" /\ intent = Some(Both) /\ IsSome(aggregatedResponse)
     /\ ~Get(aResult).success) =>
     /\ ~Get(response).success
     /\ Get(response).response # <<>>

(* C10: when a 'both' query completes aggregation, success is the          *)
(* conjunction of the two agents' success flags and the response is the    *)
(* aggregated text.                                                        *)
C10_BothSuccessIsConjunction ==
  (oPc = "done" /\ IsSome(aggregatedResponse)) =>
     /\ Get(response).success = (Get(aResult).success /\ Get(sResult).success)
     /\ Get(response).response = Get(aggregatedResponse)

C10_Witness ==
  /\ oPc = "done"
  /\ IsSome(aggregatedResponse)
  /\ Get(aResult).success /\ ~Get(sResult).success
  /\ ~Get(response).success
  /\ Get(response).response = Get(aggregatedResponse)

(* the awaited steps of each agent *)
AnalyticsStep == AInfer \/ AValidate \/ AFetch \/ AExplain
SeoStep == SInit \/ SResolve \/ SLoad \/ SInfer \/ SExecute \/ SExplain

Joining == oPc = "dispatched" /\ intent = Some(Both)

(* C11: in a 'both' query, under every interleaving, an agent that has not  *)
(* returned can always take its next step whatever the other agent has done *)
(* (failed or not); a step of one agent leaves the other agent's state and  *)
(* the orchestrator's state alone; and the orchestrator leaves the join     *)
(* only towards aggregation, with both AgentResults present and unchanged.  *)
C11_BranchesIsolated ==
  /\ [](Joining =>
         /\ (sPc # "returned" => ENABLED SeoStep)
         /\ (aPc # "returned" => ENABLED AnalyticsStep)
         /\ (aPc = "returned" => IsSome(aResult))
         /\ (sPc = "returned" => IsSome(sResult)))
  /\ [][Joining =>
         /\ (aVars' # aVars => sVars' = sVars /\ oVars' = oVars)
         /\ (sVars' # sVars => aVars' = aVars /\ oVars' = oVars)
         /\ (oVars' # oVars =>
               /\ oPc' = "aggregating"
               /\ IsSome(aResult) /\ IsSome(sResult)
               /\ aVars' = aVars /\ sVars' = sVars)]_vars

(* one agent failed in a real run, the other ran to a successful result,   *)
(* and the join has been passed                                            *)
C11_Witness ==
  /\ oPc = "aggregating"
  /\ calls.analytics = 1
  /\ ~Get(aResult).success
  /\ Get(sResult).success
  /\ IsSome(sResults)

AllRateLimited == \A i \in 1..Len(served) : served[i].kind = "rate"

(* C12: when every request of a chat call is answered with 429, chat sends  *)
(* exactly 3 requests, waits 1000, 2000 and 4000 ms after the first, second *)
(* and third 429, and then fails with the exhaustion error.                *)
C12_RateLimitBackoff ==
  AllRateLimited =>
     /\ Len(served) <= 3
     /\ delays = SubSeq(<<1000, 2000, 4000>>, 1, Len(served))
     /\ gPc # "returned"
     /\ (gPc = "failed" =>
           /\ Len(served) = 3
           /\ ~Get(gResult).ok
           /\ SubSeq(Get(gResult).error, 1, 3)
                = <<"LiteLLM failed after ", "3", " attempts: ">>)

C12_Witness ==
  /\ gPc = "failed"
  /\ served = <<HttpRate, HttpRate, HttpRate>>
  /\ delays = <<1000, 2000, 4000>>

(* C13: whenever chat fails by exhaustion, the error message states the    *)
(* attempt count 3 and embeds the message of the last underlying failure,  *)
(* for every mix of 429, non-OK and exception outcomes.                    *)
C13_ExhaustionEmbedsLastCause ==
  gPc = "failed" =>
     LET cause == ThrownMessage(served[Len(served)])
     IN /\ ~Get(gResult).ok
        /\ IsSome(cause)
        /\ Get(gResult).error
             = <<"LiteLLM failed after ", "3", " attempts: ">> \o Get(cause)

(* the list the sort stage was given *)
SortInput(data, plan) == GroupStage(FilterStage(data, plan).rows, plan).rows

FiltersOnly(plan) ==
  /\ IsSome(plan.filters) /\ Len(Get(plan.filters)) > 0
  /\ ~IsSome(plan.groupBy) /\ ~IsSome(plan.sortBy) /\ ~IsSome(plan.limit)

(* C15: applying the filter stage to its own output with the same filter   *)
(* list gives that output again, for the operators ==, !=, >, <, contains  *)
(* and unknown ones; so a run on the results of a filters-only run returns *)
(* those results.                                                          *)
C15_FilterIdempotent ==
  LET once == FilterStage(Get(sData), Get(sPlan))
  IN /\ once.ok => FilterStage(once.rows, Get(sPlan)) = once
     /\ (sPc = "explain" /\ FiltersOnly(Get(sPlan))) =>
          /\ Get(sResults).results = once.rows
          /\ executeDataOperations(Get(sResults).results, Get(sPlan))
               = [ok |-> TRUE, value |-> Get(sResults)]

(* a run with two clauses that kept some rows and dropped others *)
C15_Witness ==
  /\ sPc = "explain"
  /\ FiltersOnly(Get(sPlan))
  /\ Len(Get(Get(sPlan).filters)) = 2
  /\ Len(Get(sResults).results) > 0
  /\ Len(Get(sResults).results) < Len(Get(sData))

ColumnsOf(rows) == UNION {DOMAIN rows[i] : i \in 1..Len(rows)}

(* a plan all of whose clauses are objects, one of them naming a column    *)
(* that no loaded row has                                                  *)
NamesMissingColumn(rows, plan) ==
  /\ IsSome(plan.filters)
  /\ \A i \in 1..Len(Get(plan.filters)) : IsSome(Get(plan.filters)[i])
  /\ \E i \in 1..Len(Get(plan.filters)) :
        /\ Get(Get(plan.filters)[i]).column \notin ColumnsOf(rows)
        /\ Get(Get(plan.filters)[i]).operator
             \in {"==", "!=", ">", "<", "contains"}

(* C16: a filter clause naming a column the loaded rows do not have raises *)
(* no error and matches no row: the run succeeds with an empty result, for *)
(* each of the operators ==, !=, >, <, contains.                           *)
C16_MissingColumnMatchesNothing ==
  (sPc \in {"explain", "returned"}
     /\ NamesMissingColumn(Get(sData), Get(sPlan))) =>
     /\ sPc = "explain"
     /\ Get(sResults).results = <<>>

(* what queryRequestSchema asks of a body *)
SchemaHolds(b) ==
  /\ b.query[1] = "string" /\ b.query[2] # <<>>
  /\ b.propertyId[1] \in {"absent", "string"}
  /\ b.spreadsheetId[1] \in {"absent", "string"}

(* C17: a body failing the schema is answered 400 and processQuery is not  *)
(* invoked; any other is answered 200 exactly when the response has        *)
(* success = true and 500 when it has success = false.                     *)
C17_StatusMapping ==
  /\ ~SchemaHolds(body) =>
       /\ oPc = "idle"
       /\ \A c \in DOMAIN calls : calls[c] = 0
       /\ (hPc = "responded" => httpStatus = Some(400))
  /\ (SchemaHolds(body) /\ hPc = "responded") =>
       /\ oPc = "done"
       /\ (Get(response).success => httpStatus = Some(200))
       /\ (~Get(response).success => httpStatus = Some(500))

(* an analytics query without propertyId, rejected with 500 *)
C17_Witness ==
  /\ hPc = "responded"
  /\ httpStatus = Some(500)
  /\ intent = Some(Analytics)
  /\ Get(response).error = Some(<<"Missing propertyId">>)
  /\ calls.analytics = 0

(* C18: the aggregation call is made exactly once in every 'both' query,   *)
(* only when both AgentResults exist, whatever their success flags; it is  *)
(* never made in an analytics-only or seo-only query.                      *)
C18_AggregationCalledOnce ==
  /\ calls.aggregate <= 1
  /\ calls.aggregate = 1 =>
       /\ intent = Some(Both)
       /\ IsSome(aResult) /\ IsSome(sResult)
  /\ (oPc = "done" /\ intent = Some(Both)) => calls.aggregate = 1
  /\ (oPc = "done" /\ intent \in {Some(Analytics), Some(Seo)}) =>
       calls.aggregate = 0

(* both agents failed in real runs and the aggregation call was made *)
C18_Witness ==
  /\ oPc = "done"
  /\ intent = Some(Both)
  /\ calls.analytics = 1 /\ calls.seo = 1
  /\ ~Get(aResult).success /\ ~Get(sResult).success
  /\ calls.aggregate = 1
  /\ IsSome(aggregatedResponse)

Dispatched == oPc \in {"dispatched", "aggregating", "done"}

(* C19: for intent seo the SEO agent is invoked exactly once and the       *)
(* analytics agent never, with or without propertyId; for intent both the  *)
(* SEO agent is invoked exactly once and the analytics agent exactly once  *)
(* when propertyId is given, and not at all when it is not: then the       *)
(* result {success: false, explanation: 'No propertyId provided', error:   *)
(* 'Missing propertyId'} stands in for it.                                 *)
C19_DispatchPerIntent ==
  /\ calls.seo <= 1 /\ calls.analytics <= 1
  /\ (Dispatched /\ intent = Some(Seo)) =>
       calls.seo = 1 /\ calls.analytics = 0 /\ aPc = "idle"
  /\ (Dispatched /\ intent = Some(Both)) =>
       /\ calls.seo = 1
       /\ IF Truthy(request.propertyId)
          THEN calls.analytics = 1
          ELSE /\ calls.analytics = 0
               /\ calls.runReport = 0
               /\ aResult = Some([success |-> FALSE, data |-> None,
                                   explanation |-> <<"No propertyId provided">>,
                                   error |-> Some(<<"Missing propertyId">>)])

(* a 'both' query without propertyId whose SEO agent has run and returned *)
C19_Witness ==
  /\ oPc = "dispatched"
  /\ intent = Some(Both)
  /\ ~Truthy(request.propertyId)
  /\ calls.analytics = 0 /\ calls.seo = 1
  /\ aResult = Some(NoPropertyIdResult)
  /\ sPc = "returned" /\ Get(sResult).success

(* C20: when the classification call fails by exhaustion, processQuery     *)
(* returns success = false with an error field, metadata.intent 'unknown'  *)
(* and agentsUsed [], and neither agent is invoked.                        *)
C20_ClassificationFailure ==
  /\ (calls.gateway = 1 /\ calls.exhausted = 1) =>
       /\ oPc = "done"
       /\ intent = None
       /\ ~Get(response).success
       /\ IsSome(Get(response).error)
       /\ SubSeq(Get(Get(response).error), 1, 3)
            = <<"LiteLLM failed after ", "3", " attempts: ">>
       /\ Get(Get(response).metadata).intent = Unknown
       /\ Get(Get(response).metadata).agentsUsed = <<>>
       /\ calls.analytics = 0 /\ calls.seo = 0
       /\ aPc = "idle" /\ sPc = "idle"
       /\ calls.runReport = 0 /\ calls.loadTable = 0
  /\ (calls.exhausted >= 1 /\ intent = None) => calls.gateway = 1

C20_Witness ==
  /\ oPc = "done"
  /\ intent = None
  /\ calls.gateway = 1 /\ calls.exhausted = 1
  /\ Get(response).error
       = Some(<<"LiteLLM failed after ", "3", " attempts: ", "fetch failed">>)
  /\ Get(response).metadata
       = Some([intent |-> Unknown, agentsUsed |-> <<>>, processingTime |-> 1])

ChatEnded == gPc \in {"returned", "failed"}

C22_FailuresBackOffAlike ==
  \A k \in 1..Len(served) :
     (k <= 2 /\ served[k].kind # "ok") =>
        /\ Len(delays) >= k
        /\ delays[k] = (IF k = 1 THEN 1000 ELSE 2000)
        /\ (Len(served) = k => gPc = "request" /\ attempt = k)

(* two failures that were not 429s, then an answer to the second retry *)
C22_Witness ==
  /\ gPc = "returned"
  /\ Len(served) = 3
  /\ served[1].kind = "exc" /\ served[2].kind = "notok"
  /\ delays = <<1000, 2000>>

KnownOperators == {"==", "!=", ">", "<", "contains"}

(* every entry of the filter list is a clause object *)
ClausesOnly(plan) ==
  /\ IsSome(plan.filters)
  /\ \A i \in 1..Len(Get(plan.filters)) : IsSome(Get(plan.filters)[i])

(* what a clause asks of a row: its operator's test, nothing for an        *)
(* operator that is not known                                              *)
Satisfies(row, clause) ==
  clause.operator \in KnownOperators => FilterMatches(row, clause)

Reversed(seq) == [i \in 1..Len(seq) |-> seq[Len(seq) + 1 - i]]

(* C23: for a filter list of clause objects, the filtered list is exactly  *)
(* the input rows, in their order, that satisfy every clause (a clause     *)
(* with an unknown operator is satisfied by every row); after a clause     *)
(* {column, '!=', v} no remaining row has column equal to v; and the       *)
(* clauses in the opposite order give the same list.                       *)
C23_FilterSemantics ==
  ClausesOnly(Get(sPlan)) =>
    LET clauses == [i \in 1..Len(Get(Get(sPlan).filters)) |->
                      Get(Get(Get(sPlan).filters)[i])]
        out == FilterStage(Get(sData), Get(sPlan))
    IN /\ out.ok
       /\ out.rows = SelectSeq(Get(sData),
                         LAMBDA row : \A i \in 1..Len(clauses) :
                                        Satisfies(row, clauses[i]))
       /\ \A i \in 1..Len(clauses), k \in 1..Len(out.rows) :
             clauses[i].operator = "!=" =>
               ~LooseEq(Field(out.rows[k], clauses[i].column), clauses[i].value)
       /\ FilterStage(Get(sData),
                      [Get(sPlan) EXCEPT !.filters =
                          Some(Reversed(Get(Get(sPlan).filters)))]) = out
       /\ (sPc = "explain" /\ FiltersOnly(Get(sPlan))) =>
             Get(sResults).results = out.rows

(* a '!=' clause and a clause with an unknown operator kept some rows and  *)
(* dropped others                                                          *)
C23_Witness ==
  /\ sPc = "explain"
  /\ FiltersOnly(Get(sPlan))
  /\ Len(Get(Get(sPlan).filters)) = 2
  /\ ClausesOnly(Get(sPlan))
  /\ Get(Get(Get(sPlan).filters)[1]).column = "Protocol"
  /\ Get(Get(Get(sPlan).filters)[1]).operator = "!="
  /\ Get(Get(Get(sPlan).filters)[1]).value.t = "str"
  /\ Get(Get(Get(sPlan).filters)[1]).value.v = <<"h","t","t","p">>
  /\ Get(Get(Get(sPlan).filters)[2]).operator = "~"
  /\ Len(Get(sResults).results) = 2

RECURSIVE SumCounts(_)
SumCounts(groups) ==
  IF groups = <<>> THEN 0 ELSE Head(groups).count.v + SumCounts(Tail(groups))

(* the plan groups, and neither its filters fail nor a limit cuts the list *)
GroupsAll(plan) ==
  /\ IsSome(plan.groupBy)
  /\ (IsSome(plan.filters) => ClausesOnly(plan))
  /\ ~IsSome(plan.limit)

(* C24: when plan.groupBy is set, the row list is replaced by exactly one  *)
(* record per distinct value of that column among the filtered rows; each  *)
(* record's count is the length of its items, its items are exactly the    *)
(* filtered rows with that value, and the counts add up to the number of   *)
(* filtered rows.                                                          *)
C24_GroupPartitions ==
  (sPc \in {"explain", "returned"} /\ GroupsAll(Get(sPlan))) =>
    /\ sPc = "explain"
    /\ LET column == Get(Get(sPlan).groupBy)
           rows == FilterStage(Get(sData), Get(sPlan)).rows
           groups == Get(sResults).results
           values == {ToStr(Field(rows[i], column)) : i \in 1..Len(rows)}
       IN /\ Len(groups) = Cardinality(values)
          /\ {groups[g][column].v : g \in 1..Len(groups)} = values
          /\ \A g \in 1..Len(groups) :
                /\ groups[g].count.v = Len(groups[g].items.v)
                /\ groups[g].items.v =
                     SelectSeq(rows, LAMBDA row :
                                 ToStr(Field(row, column)) = groups[g][column].v)
          /\ SumCounts(groups) = Len(rows)

(* the ordering the sort stage is described by: numeric when both keys     *)
(* read as numbers, by characters otherwise                                *)
KeyLess(a, b) ==
  LET x == ToNumber(a)
      y == ToNumber(b)
  IN IF a.t # "undef" /\ b.t # "undef" /\ x.t = "num" /\ y.t = "num"
     THEN x.v < y.v
     ELSE LexLess(ToStr(a), ToStr(b))

Occurrences(seq, x) == Cardinality({i \in 1..Len(seq) : seq[i] = x})

IsPermutation(out, in) ==
  /\ Len(out) = Len(in)
  /\ \A i \in 1..Len(in) : Occurrences(out, in[i]) = Occurrences(in, in[i])

PositionIn(seq, x) == CHOOSE i \in 1..Len(seq) : seq[i] = x

(* the plan sorts, and neither a stage before fails nor a limit cuts *)
SortsAll(plan) ==
  /\ IsSome(plan.sortBy)
  /\ (IsSome(plan.filters) => ClausesOnly(plan))
  /\ ~IsSome(plan.limit)

(* C25: when plan.sortBy is set, the output is a permutation of the        *)
(* records entering the sort stage, no adjacent pair is out of order on    *)
(* the sort column (ascending, or descending when desc is set), and        *)
(* records with equal sort keys keep their relative input order.           *)
C25_SortOrdered ==
  (sPc = "explain" /\ SortsAll(Get(sPlan))) =>
    LET plan == Get(sPlan)
        column == Get(plan.sortBy).column
        desc == Get(plan.sortBy).desc
        in == SortInput(Get(sData), plan)
        out == Get(sResults).results
        Key(i) == Field(out[i], column)
    IN /\ IsPermutation(out, in)
       /\ \A i \in 1..(Len(out) - 1) :
            /\ IF desc THEN ~KeyLess(Key(i), Key(i + 1))
                       ELSE ~KeyLess(Key(i + 1), Key(i))
            /\ (~KeyLess(Key(i), Key(i + 1)) /\ ~KeyLess(Key(i + 1), Key(i)))
                 => PositionIn(in, out[i]) < PositionIn(in, out[i + 1])

(* C26: whenever the plan carries a limit N >= 0, zero included, results   *)
(* is exactly the first min(N, n) records of the sorted list of length n,  *)
(* resultCount is the length of results and is at most N, and the plan is  *)
(* echoed unchanged.                                                       *)
C26_LimitTruncates ==
  (/\ sPc = "explain"
   /\ IsSome(Get(sPlan).limit)
   /\ Get(Get(sPlan).limit) >= 0) =>
    LET plan == Get(sPlan)
        N == Get(plan.limit)
        sorted == SortStage(SortInput(Get(sData), plan), plan)
        output == Get(sResults)
    IN /\ output.results = SubSeq(sorted, 1, Min({N, Len(sorted)}))
       /\ output.resultCount = Len(output.results)
       /\ output.resultCount <= N
       /\ output.plan = plan

MissingSpreadsheetId ==
  ~Truthy(request.spreadsheetId) /\ ~Truthy(env.SEO_SPREADSHEET_ID)

NoSpreadsheetIdFailure ==
  SeoFailure(<<"No spreadsheet ID provided. Set SEO_SPREADSHEET_ID or include in request.">>)

(* C27 as stated: whenever SEOAgent.processQuery returns for a query with  *)
(* no spreadsheetId and no configured default, its result is the failure   *)
(* naming the missing spreadsheet id.                                      *)
C27_AlwaysNamesSpreadsheetId ==
  (MissingSpreadsheetId /\ sPc = "returned") =>
    sResult = Some(NoSpreadsheetIdFailure)

(* C27: when SEOAgent.processQuery is called with no spreadsheetId and no  *)
(* configured default, on an agent whose credentials loaded, it returns    *)
(* success = false with the error naming the missing spreadsheet id; with  *)
(* or without credentials the result is a failure, the table is never      *)
(* loaded and no step of the agent makes a gateway call.                   *)
C27_MissingSpreadsheetId ==
  /\ [](MissingSpreadsheetId =>
         /\ calls.loadTable = 0 /\ sData = None /\ sPlan = None
         /\ sPc = "returned" =>
              /\ ~Get(sResult).success
              /\ env.seoInitOk => sResult = Some(NoSpreadsheetIdFailure))
  /\ [][(MissingSpreadsheetId /\ SeoStep) => calls' = calls]_vars

(* the agent was invoked without any spreadsheet id and returned *)
C27_Witness ==
  /\ MissingSpreadsheetId
  /\ env.seoInitOk
  /\ calls.seo = 1
  /\ sPc = "returned"
  /\ sResult = Some(NoSpreadsheetIdFailure)
  /\ calls.loadTable = 0

(* the reply holds no brace-delimited substring, or one that does not decode *)
PlanUndecodable(reply, table) ==
  /\ IsSome(reply)
  /\ LET jsonMatch0 == jsonMatch(Get(reply))
     IN ~IsSome(jsonMatch0) \/ ~JSONparse(Get(jsonMatch0), table).ok

(* C28: if the reply to the plan-inference call holds no brace-delimited   *)
(* object, or one that fails to decode, the agent returns success = false  *)
(* and none of its later steps runs: analytics makes no validation, no     *)
(* runReport and no explanation call, SEO no execute-operations and no     *)
(* explanation call.                                                       *)
C28_InferenceFailureAborts ==
  /\ PlanUndecodable(aReply, AnalyticsPlanTable) =>
       /\ aPc = "returned"
       /\ ~Get(aResult).success /\ IsSome(Get(aResult).error)
       /\ aPlan = None /\ aData = None
       /\ calls.runReport = 0 /\ reports = <<>>
       /\ ~ENABLED AnalyticsStep
  /\ PlanUndecodable(sReply, SeoPlanTable) =>
       /\ sPc = "returned"
       /\ ~Get(sResult).success /\ IsSome(Get(sResult).error)
       /\ sPlan = None /\ sResults = None
       /\ ~ENABLED SeoStep

(* a 'both' query in which the analytics reply has braces that do not      *)
(* decode and the SEO reply has no braces at all                           *)
C28_Witness ==
  /\ intent = Some(Both)
  /\ aReply = Some(<<"{", "\"metrics\": [\"sessions\"", "}">>)
  /\ sReply = Some(<<"No plan.">>)
  /\ aPc = "returned" /\ sPc = "returned"
  /\ Get(aResult).error = Some(<<"Unexpected token in JSON">>)
  /\ Get(sResult).error = Some(<<"Failed to parse data plan from LLM response">>)

(* the agents whose processQuery was called during the query *)
InvokedAgents ==
  (IF calls.analytics > 0 THEN {Analytics} ELSE {})
  \cup (IF calls.seo > 0 THEN {Seo} ELSE {})

(* C29: metadata.agentsUsed of every returned response is exactly the set  *)
(* of agents whose processQuery was invoked during the query, also for     *)
(* queries rejected for a missing propertyId and for 'both' queries whose  *)
(* aggregation call fails.                                                 *)
C29_AgentsUsedAreInvoked ==
  (oPc = "done" /\ IsSome(Get(response).metadata)) =>
    Range(Get(Get(response).metadata).agentsUsed) = InvokedAgents

(* C30: every metric or dimension name in a request passed to runReport,   *)
(* in metrics, in dimensions and in the orderBys entries taken from the    *)
(* plan's orderBy, is a member of the allowlist.                           *)
C30_RequestNamesAllowlisted ==
  \A i \in 1..Len(reports) :
    /\ Range(reports[i].metrics) \subseteq Range(VALID_METRICS)
    /\ Range(reports[i].dimensions) \subseteq Range(VALID_DIMENSIONS)
    /\ Range(reports[i].orderBys)
         \subseteq Range(VALID_METRICS) \cup Range(VALID_DIMENSIONS)

AgentResultShape(r) ==
  IF r.success
  THEN IsSome(r.data) /\ ~IsSome(r.error)
  ELSE IsSome(r.error) /\ ~IsSome(r.data) /\ r.explanation # <<>>

(* C31: every AgentResult returned by either agent, or put in the place of *)
(* the analytics agent's by the orchestrator, has data and no error when   *)
(* success is true, and an error, no data and a non-empty explanation when *)
(* success is false.                                                       *)
C31_AgentResultShape ==
  /\ IsSome(aResult) => AgentResultShape(Get(aResult))
  /\ IsSome(sResult) => AgentResultShape(Get(sResult))
  /\ (aPc = "returned" => IsSome(aResult))
  /\ (sPc = "returned" => IsSome(sResult))

(* a 'both' query whose analytics agent succeeded with the fetched data    *)
(* and whose SEO agent failed on the table load                            *)
C31_Witness ==
  /\ intent = Some(Both)
  /\ aPc = "returned" /\ sPc = "returned"
  /\ Get(aResult).success /\ Get(aResult).data = Some(GA4Data)
  /\ Get(sResult) = SeoFailure(<<"Google Sheets API request failed">>)

(* plan inference decoded an object, validateFields accepted it, runReport *)
(* returned, and no gateway call of the query threw                        *)
AnalyticsStepsSucceeded ==
  /\ aPc = "returned"
  /\ IsSome(aPlan)
  /\ validateFields(Get(aPlan)) = None
  /\ IsSome(aData)
  /\ calls.exhausted = 0

(* C32: AnalyticsAgent.processQuery returns success = true with the        *)
(* fetched data whenever plan inference decodes an object, validateFields  *)
(* accepts it, runReport returns and the explanation call returns, also    *)
(* for plans that omit the metrics list or the dimensions list.            *)
C32_AnalyticsSucceeds ==
  AnalyticsStepsSucceeded =>
    /\ Get(aResult).success
    /\ Get(aResult).data = aData

====
